---- MODULE Spec2Model ----
(***************************************************************************)
(* A model of pysqlar (src/pysqlar/archive.py): the row codec              *)
(* (compress_data / decompress_data), the archive facade SQLiteArchive     *)
(* over one sqlite connection, the extraction engine _decompress_row and   *)
(* the schema detector is_sqlar.                                           *)
(*                                                                         *)
(* Conventions.                                                            *)
(*  - A byte string is a sequence of integers.                             *)
(*  - A path or name string is the sequence of its segments split on "/":  *)
(*    "a/b/" is <<"a","b","">>, "./a" is <<".","a">>, "/r" is <<"","r">>.  *)
(*    Two strings are equal iff their segment sequences are equal.         *)
(*  - Python's None is the empty tuple <<>>, a present value v is <<v>>.   *)
(*  - A call's outcome is a record whose exc field is "" on return and     *)
(*    the name of the raised exception otherwise.                          *)
(***************************************************************************)
EXTENDS Integers, Sequences, FiniteSets, TLC

VARIABLES
    conn,             \* self._conn: "open" or "closed"
    sqlar,            \* the rows of table sqlar, in rowid order
    fs,               \* the filesystem: resolved path -> object
    last,             \* the call that has just returned or raised, with its
                      \* outcome, until the caller has taken it; else Idle
    _compression,     \* self._compression
    _compress_level   \* self._compress_level

vars == <<conn, sqlar, fs, last, _compression, _compress_level>>

-----------------------------------------------------------------------------
(* Bounds *)

MaxLen == 4           \* payloads have at most MaxLen bytes

-----------------------------------------------------------------------------
(* Python values *)

None == <<>>
Some(v) == <<v>>
Truthy(opt) == opt # None /\ opt[1] # 0

Byte == {0}
\* Payload lengths: empty, and the two longest (for the codec below the
\* three cases: compressed longer than, as long as, shorter than the input).
PayloadLens == {0, MaxLen - 1, MaxLen}
Payloads == UNION {[1..n -> Byte] : n \in PayloadLens}

SQLAR_STORED == "SQLAR_STORED"
SQLAR_DEFLATED == "SQLAR_DEFLATED"

Z_DEFAULT_COMPRESSION == 0 - 1

-----------------------------------------------------------------------------
(* zlib.  The library is an external collaborator; it is modelled by a     *)
(* small run-length codec with the same contract: a one-byte header,       *)
(* level 0 emits a stored block (always longer than the input), any other  *)
(* level emits (count, byte) runs, so the output can be shorter than, as   *)
(* long as, or longer than the input; decompress inverts compress and      *)
(* raises zlib.error on anything that is not a stream.                     *)

ZStoredHeader == 1
ZDeflateHeader == 120

RECURSIVE RunLength(_)
RunLength(s) ==
    IF Len(s) <= 1 THEN Len(s)
    ELSE IF s[2] = s[1] THEN 1 + RunLength(Tail(s))
    ELSE 1

RECURSIVE Runs(_)
Runs(s) ==
    IF s = <<>> THEN <<>>
    ELSE LET n == RunLength(s)
         IN <<n, s[1]>> \o Runs(SubSeq(s, n + 1, Len(s)))

RECURSIVE Expand(_)
Expand(c) ==
    IF Len(c) < 2 THEN <<>>
    ELSE [i \in 1..c[1] |-> c[2]] \o Expand(SubSeq(c, 3, Len(c)))

zlib_compress(data, level) ==
    IF level = 0 THEN <<ZStoredHeader>> \o data
    ELSE <<ZDeflateHeader>> \o Runs(data)

IsStream(d) ==
    /\ Len(d) >= 1
    /\ \/ d[1] = ZStoredHeader
       \/ /\ d[1] = ZDeflateHeader
          /\ Len(d) % 2 = 1
          /\ \A i \in 2..Len(d) : i % 2 = 0 => d[i] >= 1

zlib_decompress(d) ==
    IF ~IsStream(d) THEN [exc |-> "zlib.error", v |-> <<>>]
    ELSE IF d[1] = ZStoredHeader THEN [exc |-> "", v |-> Tail(d)]
    ELSE [exc |-> "", v |-> Expand(Tail(d))]

-----------------------------------------------------------------------------
(* Row codec *)

\* A cell of column data: NULL, a BLOB (bytes) or TEXT (a path string).
Null == [t |-> "null", blob |-> <<>>, text |-> <<>>]
Blob(b) == [t |-> "blob", blob |-> b, text |-> <<>>]
Text(s) == [t |-> "text", blob |-> <<>>, text |-> s]

\* compress_data with the comparison "<=": a compressed form as long as
\* the input is kept.
compress_data_not_longer(data, level) ==
    LET lvl == IF Truthy(level) THEN level[1] ELSE Z_DEFAULT_COMPRESSION
        compressed_data == zlib_compress(data, lvl)
    IN IF Len(compressed_data) <= Len(data) THEN compressed_data ELSE data

\* compress_data that returns the compressed form whatever its length.
compress_data_always(data, level) ==
    LET lvl == IF Truthy(level) THEN level[1] ELSE Z_DEFAULT_COMPRESSION
    IN zlib_compress(data, lvl)

compress_data(data, level) ==
    LET lvl == IF Truthy(level) THEN level[1] ELSE Z_DEFAULT_COMPRESSION
        compressed_data == zlib_compress(data, lvl)
    IN IF Len(compressed_data) < Len(data) THEN compressed_data ELSE data

\* data is a cell; len(None) raises TypeError, zlib.decompress(str) raises
\* TypeError, len(str) is the number of characters and is never negative.
decompress_data(data, size) ==
    IF data.t = "null" THEN [exc |-> "TypeError", v |-> <<>>]
    ELSE IF data.t = "text" THEN [exc |-> "TypeError", v |-> <<>>]
    ELSE IF size = Len(data.blob) THEN [exc |-> "", v |-> data.blob]
    ELSE zlib_decompress(data.blob)

-----------------------------------------------------------------------------
(* Paths (pathlib.PurePosixPath) *)

IsAbsolute(s) == Len(s) > 1 /\ s[1] = ""

\* The parts pathlib keeps: empty and "." segments are dropped, ".." stays.
Parts(s) == SelectSeq(s, LAMBDA x : x # "" /\ x # ".")

\* str(Path(s).as_posix())
as_posix(s) ==
    IF IsAbsolute(s)
    THEN (IF Parts(s) = <<>> THEN <<"", "">> ELSE <<"">> \o Parts(s))
    ELSE (IF Parts(s) = <<>> THEN <<".">> ELSE Parts(s))

\* The process's working directory, as a resolved path from the root.
Cwd == <<"cwd">>

\* The resolved location of Path(s): relative paths start at Cwd.
Locate(s) == IF IsAbsolute(s) THEN Parts(s) ELSE Cwd \o Parts(s)

\* path / name for a root that is None or a string, then located.
\* A name that is absolute replaces the root.
JoinPath(path, name) ==
    IF IsAbsolute(name) THEN Locate(name)
    ELSE IF path = None THEN Locate(name)
    ELSE Locate(path[1]) \o Parts(name)

Parent(p) == IF p = <<>> THEN <<>> ELSE SubSeq(p, 1, Len(p) - 1)

\* Where the system finds a located path: ".." steps to the parent
\* directory (the root is its own parent).
RECURSIVE Resolve(_)
Resolve(p) ==
    IF p = <<>> THEN <<>>
    ELSE LET q == Resolve(SubSeq(p, 1, Len(p) - 1))
         IN IF p[Len(p)] = ".." THEN Parent(q) ELSE Append(q, p[Len(p)])

-----------------------------------------------------------------------------
(* Filesystem: a function from resolved paths to objects *)

DirMode == 493        \* 0o755, mode of a directory made by mkdir
FileMode == 420       \* 0o644, mode of a file made by open(.., "wb")

\* Timestamps. mtime and atime are whole seconds; atime_ns is the part of
\* st_atime_ns below the second, in nanoseconds. Every clock reading of the
\* model falls SubSecond nanoseconds after a whole second.
SubSecond == 500

\* info.st_atime is a float: for a time between 2^30 and 2^31 seconds its
\* fraction is a multiple of 2^-22 s, the nearest one to the nanoseconds.
\* st_atime(ns) is that multiple, for ns within the first microsecond
\* (ns / 10^9 against k / 2^22, both sides scaled by 10^9 * 2^22 / 64).
st_atime(ns) ==
    LET off(k) == IF ns * 65536 >= k * 15625000
                  THEN ns * 65536 - k * 15625000
                  ELSE k * 15625000 - ns * 65536
    IN CHOOSE k \in 0..4 : \A j \in 0..4 : off(k) <= off(j)

\* os.utime(times=(atime, ..)) turns the float into whole nanoseconds,
\* rounding down: floor(k * 10^9 / 2^22).
utime_ns(k) == (k * 15625000) \div 65536

Dir(m, t) ==
    [kind |-> "dir", data |-> <<>>, target |-> <<>>,
     mode |-> m, mtime |-> t, atime |-> t, atime_ns |-> SubSecond]
File(b, m, t) ==
    [kind |-> "file", data |-> b, target |-> <<>>,
     mode |-> m, mtime |-> t, atime |-> t, atime_ns |-> SubSecond]
Symlink(tgt, t) ==
    [kind |-> "symlink", data |-> <<>>, target |-> tgt,
     mode |-> 511, mtime |-> t, atime |-> t, atime_ns |-> SubSecond]
Fifo(m, t) ==
    [kind |-> "fifo", data |-> <<>>, target |-> <<>>,
     mode |-> m, mtime |-> t, atime |-> t, atime_ns |-> SubSecond]

Exists(f, p) == p \in DOMAIN f

Put(f, p, obj) == [q \in DOMAIN f \cup {p} |-> IF q = p THEN obj ELSE f[q]]

\* Where a system call that follows symbolic links lands (one level: no
\* link in the model points to another link).
Follow(f, p) ==
    IF Exists(f, p) /\ f[p].kind = "symlink"
    THEN Parent(p) \o Parts(f[p].target)
    ELSE p

\* Path.mkdir(parents=True, exist_ok=True) on directory d at time now.
\* os.mkdir fails with NotADirectoryError when a proper ancestor is not a
\* directory and with FileExistsError when d itself exists and is not one;
\* nothing is created in either case.
Ancestors(d) == {Resolve(SubSeq(d, 1, n)) : n \in 0..Len(d)}

mkdir_parents(f, d, now) ==
    IF \E a \in Ancestors(d) : a # Resolve(d) /\ Exists(f, a) /\ f[a].kind # "dir"
    THEN [exc |-> "NotADirectoryError", fs |-> f]
    ELSE IF Exists(f, Resolve(d)) /\ f[Resolve(d)].kind # "dir"
    THEN [exc |-> "FileExistsError", fs |-> f]
    ELSE [exc |-> "",
          fs |-> [q \in DOMAIN f \cup Ancestors(d) |->
                    IF q \in DOMAIN f THEN f[q] ELSE Dir(DirMode, now)]]

\* open(p, "wb") followed by close: creates or truncates a regular file.
open_wb(f, p, now) ==
    LET q == Follow(f, p)
    IN IF Exists(f, q) /\ f[q].kind = "dir"
       THEN [exc |-> "IsADirectoryError", fs |-> f]
       ELSE IF Exists(f, q)
       THEN [exc |-> "", fs |-> Put(f, q, [f[q] EXCEPT !.data = <<>>, !.mtime = now])]
       ELSE [exc |-> "", fs |-> Put(f, q, File(<<>>, FileMode, now))]

-----------------------------------------------------------------------------
(* Extraction engine *)

\* A row of table sqlar.
Row(name, mode, mtime, sz, data) ==
    [name |-> name, mode |-> mode, mtime |-> mtime, sz |-> sz, data |-> data]

\* _decompress_row(path, row) on filesystem f at time now.
_decompress_row(f, path, row, now) ==
    LET complete_path == JoinPath(path, row.name)
        made == mkdir_parents(f, Parent(complete_path), now)
        opened == open_wb(made.fs, Resolve(complete_path), now)
        decoded == decompress_data(row.data, row.sz)
        target == Follow(opened.fs, Resolve(complete_path))
        written == Put(opened.fs, target,
                       [opened.fs[target] EXCEPT !.data = decoded.v])
        \* chmod(mode); info = stat(); utime(times=(info.st_atime, mtime))
        stamped == Put(written, target,
                       [written[target] EXCEPT !.mode = row.mode,
                                               !.atime = written[target].atime,
                                               !.atime_ns =
                                                   utime_ns(st_atime(written[target].atime_ns)),
                                               !.mtime = row.mtime])
    IN IF made.exc # "" THEN [exc |-> made.exc, fs |-> f]
       ELSE IF opened.exc # "" THEN [exc |-> opened.exc, fs |-> made.fs]
       ELSE IF decoded.exc # "" THEN [exc |-> decoded.exc, fs |-> opened.fs]
       ELSE [exc |-> "", fs |-> stamped]


-----------------------------------------------------------------------------
(* The store: table sqlar behind one sqlite3 connection *)

RowNames(rows) == {rows[i].name : i \in 1..Len(rows)}

\* Every name string the model can store, in the order of sqlite's BINARY
\* collation ("." sorts before "/", "/" before letters). The automatic index on the primary
\* key yields names in this order.
Collation == << <<"..", "e">>, <<"", "e">>, <<"a">>, <<"a", "b">> >>

RowOf(rows, name) == rows[CHOOSE i \in 1..Len(rows) : rows[i].name = name]

\* SELECT * FROM sqlar WHERE name = ?  ... fetchone()
SelectByName(rows, name) ==
    IF name \in RowNames(rows) THEN Some(RowOf(rows, name)) ELSE None

\* SELECT * FROM sqlar: a scan of the table, in rowid order.
SelectAll(rows) == rows

\* A scan of the primary-key index: the rows whose name is in keep, by name.
IndexScan(rows, keep) ==
    LET hit == SelectSeq(Collation, LAMBDA n : n \in RowNames(rows) /\ n \in keep)
    IN [i \in 1..Len(hit) |-> RowOf(rows, hit[i])]

\* Insert as INSERT OR REPLACE: a row of the same name is replaced.
Insert_or_replace(rows, row) ==
    [exc |-> "",
     rows |-> IF row.name \in RowNames(rows)
              THEN [i \in 1..Len(rows) |->
                      IF rows[i].name = row.name THEN row ELSE rows[i]]
              ELSE Append(rows, row)]

\* Insert whose failure is not rolled back: the row stays though it raises.
Insert_without_rollback(rows, row) ==
    IF row.name \in RowNames(rows)
    THEN [exc |-> "IntegrityError", rows |-> Append(rows, row)]
    ELSE [exc |-> "", rows |-> Append(rows, row)]

\* INSERT INTO sqlar(name, mode, mtime, sz, data) VALUES (?, ?, ?, ?, ?)
\* inside "with self._conn": committed, or rolled back when it raises.
Insert(rows, row) ==
    IF row.name \in RowNames(rows)
    THEN [exc |-> "IntegrityError", rows |-> rows]
    ELSE [exc |-> "", rows |-> Append(rows, row)]

Info(row) == <<row.name, row.mode, row.mtime, row.sz>>

-----------------------------------------------------------------------------
(* Inputs of the calls *)

ArcNames == { <<"a">>, <<"a", "b">>, <<"a", "b", "">> }
\* Archive names that point out of a destination root: "../e" and "/e".
OutsideNames == { <<"..", "e">>, <<"", "e">> }
Modes == {511}
Mtimes == {5}
Clock == {100}
Roots == {None, Some(<<"out">>)}
Filenames == { <<"a">>, <<"a", "b">>, <<"l">>, <<"d">>, <<"p">>, <<"gone">> }
\* The (compression, compress_level) arguments of a write call.
CodecArgs ==
    { <<None, None>>, <<Some(SQLAR_STORED), None>>, <<Some(SQLAR_DEFLATED), None>>,
      <<Some(SQLAR_DEFLATED), Some(0)>>, <<Some(SQLAR_DEFLATED), Some(9)>> }

\* The (compression, compress_level) arguments of the constructor.
Configs ==
    { <<SQLAR_STORED, None>>, <<SQLAR_DEFLATED, Some(9)>>, <<SQLAR_DEFLATED, Some(0)>> }

\* write(filename, arcname): the archive name defaults to the filename for
\* the files whose path is one of the model's names.
WriteCalls ==
    {c \in Filenames \X ({None} \cup {Some(n) : n \in ArcNames}) :
        c[2] = None => c[1] \in ArcNames}

\* The filesystem the process starts with: under Cwd a directory a holding
\* a regular file b, a symbolic link l to a/b, a symbolic link d to a
\* path that does not exist, and a fifo p.
InitFs ==
    LET t == 3
    IN (<<>> :> Dir(DirMode, t))
       @@ (Cwd :> Dir(DirMode, t))
       @@ (<<"cwd", "a">> :> Dir(DirMode, t))
       @@ (<<"cwd", "a", "b">> :> File(<<0, 0, 0, 0>>, FileMode, t))
       @@ (<<"cwd", "l">> :> Symlink(<<"a", "b">>, t))
       @@ (<<"cwd", "d">> :> Symlink(<<"gone">>, t))
       @@ (<<"cwd", "p">> :> Fifo(FileMode, t))

-----------------------------------------------------------------------------
(* Archive facade: outcomes of the read-only calls *)

Closed == conn = "closed"
ClosedError == "ProgrammingError: Cannot operate on a closed database."
BindingError == "ProgrammingError: Incorrect number of bindings supplied."
SyntaxError == "OperationalError: syntax error"

Call(op, arg, exc, ret) == [op |-> op, arg |-> arg, exc |-> exc, ret |-> ret]
Idle == Call("", <<>>, "", None)

getinfo(name) ==
    IF Closed THEN [exc |-> ClosedError, ret |-> None]
    ELSE LET row == SelectByName(sqlar, name)
         IN [exc |-> "", ret |-> IF row = None THEN None ELSE Some(Info(row[1]))]

infolist ==
    IF Closed THEN [exc |-> ClosedError, ret |-> None]
    ELSE [exc |-> "",
          ret |-> Some([i \in 1..Len(sqlar) |-> Info(SelectAll(sqlar)[i])])]

\* SELECT name FROM sqlar is answered from the primary-key index.
namelist ==
    IF Closed THEN [exc |-> ClosedError, ret |-> None]
    ELSE LET rows == IndexScan(sqlar, RowNames(sqlar))
         IN [exc |-> "", ret |-> Some([i \in 1..Len(rows) |-> rows[i].name])]

\* read that answers None when the connection is closed.
read_ignoring_close(name) ==
    IF Closed THEN [exc |-> "", ret |-> None]
    ELSE LET row == SelectByName(sqlar, name)
         IN IF row = None THEN [exc |-> "", ret |-> None]
            ELSE LET d == decompress_data(row[1].data, row[1].sz)
                 IN IF d.exc # "" THEN [exc |-> d.exc, ret |-> None]
                    ELSE [exc |-> "", ret |-> Some(d.v)]

read(name) ==
    IF Closed THEN [exc |-> ClosedError, ret |-> None]
    ELSE LET row == SelectByName(sqlar, name)
         IN IF row = None THEN [exc |-> "", ret |-> None]
            ELSE LET d == decompress_data(row[1].data, row[1].sz)
                 IN IF d.exc # "" THEN [exc |-> d.exc, ret |-> None]
                    ELSE [exc |-> "", ret |-> Some(d.v)]


-----------------------------------------------------------------------------
(* Archive facade: extraction *)

Range(seq) == {seq[i] : i \in 1..Len(seq)}

\* The loop with a rollback: when a row raises, the filesystem is put back
\* as it was before the first row.
RECURSIVE ExtractRows_rollback(_, _, _, _)
ExtractRows_rollback(f, path, rows, now) ==
    IF rows = <<>> THEN [exc |-> "", fs |-> f, calls |-> <<>>]
    ELSE LET r == _decompress_row(f, path, Head(rows), now)
         IN IF r.exc # ""
            THEN [exc |-> r.exc, fs |-> f, calls |-> <<Head(rows).name>>]
            ELSE LET rest == ExtractRows_rollback(r.fs, path, Tail(rows), now)
                 IN IF rest.exc # ""
                    THEN [rest EXCEPT !.fs = f, !.calls = <<Head(rows).name>> \o @]
                    ELSE [rest EXCEPT !.calls = <<Head(rows).name>> \o @]

\* for row in cur: _decompress_row(path, row) -- stops at the first row
\* that raises. calls lists the names _decompress_row was called with.
RECURSIVE ExtractRows(_, _, _, _)
ExtractRows(f, path, rows, now) ==
    IF rows = <<>> THEN [exc |-> "", fs |-> f, calls |-> <<>>]
    ELSE LET r == _decompress_row(f, path, Head(rows), now)
         IN IF r.exc # ""
            THEN [exc |-> r.exc, fs |-> r.fs, calls |-> <<Head(rows).name>>]
            ELSE LET rest == ExtractRows(r.fs, path, Tail(rows), now)
                 IN [rest EXCEPT !.calls = <<Head(rows).name>> \o @]

\* extract that makes the destination root before it looks the member up.
extract_making_root(member, path, now) ==
    IF Closed THEN [exc |-> ClosedError, fs |-> fs, calls |-> <<>>]
    ELSE LET row == SelectByName(sqlar, member)
             made == mkdir_parents(fs, JoinPath(path, <<".">>), now)
         IN IF row = None THEN [exc |-> made.exc, fs |-> made.fs, calls |-> <<>>]
            ELSE LET r == _decompress_row(made.fs, path, row[1], now)
                 IN [exc |-> r.exc, fs |-> r.fs, calls |-> <<row[1].name>>]

extract(member, path, now) ==
    IF Closed THEN [exc |-> ClosedError, fs |-> fs, calls |-> <<>>]
    ELSE LET row == SelectByName(sqlar, member)
         IN IF row = None THEN [exc |-> "", fs |-> fs, calls |-> <<>>]
            ELSE LET r == _decompress_row(fs, path, row[1], now)
                 IN [exc |-> r.exc, fs |-> r.fs, calls |-> <<row[1].name>>]

\* '?,'.join('' for _ in members): n empty strings joined by "?,", that is
\* n - 1 copies of "?,", as a sequence of the tokens "?" and ",".
Placeholders(members) ==
    IF Len(members) = 0 THEN <<>>
    ELSE [i \in 1..(2 * (Len(members) - 1)) |-> IF i % 2 = 1 THEN "?" ELSE ","]

\* sqlite's grammar for the list of "name IN ( ... )": empty, or
\* expressions separated by commas.
InListParses(tokens) ==
    \/ tokens = <<>>
    \/ /\ Len(tokens) % 2 = 1
       /\ \A i \in 1..Len(tokens) : tokens[i] = (IF i % 2 = 1 THEN "?" ELSE ",")

NumParameters(tokens) == Cardinality({i \in 1..Len(tokens) : tokens[i] = "?"})

\* c.execute("SELECT * FROM sqlar WHERE name IN ({})".format(..), members)
SelectIn(rows, members) ==
    LET tokens == Placeholders(members)
    IN IF ~InListParses(tokens) THEN [exc |-> SyntaxError, rows |-> <<>>]
       ELSE IF NumParameters(tokens) # Len(members)
       THEN [exc |-> BindingError, rows |-> <<>>]
       ELSE [exc |-> "", rows |-> IndexScan(rows, Range(members))]

MemberLimit == 1000

\* members is None or a list of names; an empty list is falsy.
extractall(path, members, now) ==
    IF members # None /\ Len(members[1]) > 0 /\ Len(members[1]) > MemberLimit
    THEN [exc |-> "ValueError", fs |-> fs, calls |-> <<>>]
    ELSE IF Closed THEN [exc |-> ClosedError, fs |-> fs, calls |-> <<>>]
    ELSE IF members # None /\ Len(members[1]) > 0
    THEN LET cur == SelectIn(sqlar, members[1])
         IN IF cur.exc # "" THEN [exc |-> cur.exc, fs |-> fs, calls |-> <<>>]
            ELSE ExtractRows(fs, path, cur.rows, now)
    ELSE ExtractRows(fs, path, SelectAll(sqlar), now)

-----------------------------------------------------------------------------
(* Archive facade: writing *)

\* write(filename, arcname, compression, compress_level)
write(filename, arcname, compression, compress_level) ==
    LET name == IF arcname # None THEN arcname[1] ELSE filename
        comp == IF compression # None THEN compression[1] ELSE _compression
        level == IF Truthy(compress_level) THEN compress_level ELSE _compress_level
        path == Locate(filename)
        real == Follow(fs, path)
        info == fs[real]
        is_symlink == fs[path].kind = "symlink"
        row == IF is_symlink
               THEN Row(as_posix(name), info.mode, info.mtime, 0 - 1,
                        Text(<<"">> \o real))
               ELSE IF info.kind = "file"
               THEN Row(as_posix(name), info.mode, info.mtime, Len(info.data),
                        IF comp = SQLAR_DEFLATED
                        THEN Blob(compress_data(info.data, level))
                        ELSE Blob(info.data))
               ELSE Row(as_posix(name), info.mode, info.mtime, 0, Null)
    IN IF ~Exists(fs, real) THEN [exc |-> "FileNotFoundError", rows |-> sqlar]
       ELSE IF ~is_symlink /\ info.kind \notin {"file", "dir"}
       THEN [exc |-> "ValueError", rows |-> sqlar]
       ELSE IF Closed THEN [exc |-> ClosedError, rows |-> sqlar]
       ELSE Insert(sqlar, row)

\* writestr(arcname, data, unix_mode, mtime, compression, compress_level);
\* data is already bytes.
writestr(arcname, data, unix_mode, mtime, compression, compress_level) ==
    LET compress_type == IF compression # None THEN compression[1] ELSE _compression
        level == IF Truthy(compress_level) THEN compress_level ELSE _compress_level
        compressed_data == IF compress_type = SQLAR_DEFLATED
                           THEN compress_data(data, level)
                           ELSE data
    IN IF Closed THEN [exc |-> ClosedError, rows |-> sqlar]
       ELSE Insert(sqlar, Row(as_posix(arcname), unix_mode, mtime, Len(data),
                              Blob(compressed_data)))


-----------------------------------------------------------------------------
(* Schema detector.  A schema text is the sequence of its symbols: each    *)
(* word (a run of letters) and each other character is one symbol.         *)

IsSpace(c) == c \in {" ", "\n", "\t"}

\* The length of the leading run of whitespace, and of the word after it.
LeadingSpaces(t) ==
    CHOOSE n \in 0..Len(t) :
        /\ \A i \in 1..n : IsSpace(t[i])
        /\ n = Len(t) \/ ~IsSpace(t[n + 1])

WordLen(t) ==
    CHOOSE n \in 0..Len(t) :
        /\ \A i \in 1..n : ~IsSpace(t[i])
        /\ n = Len(t) \/ IsSpace(t[n + 1])

\* str.split(): the maximal runs without whitespace.
RECURSIVE Split(_)
Split(t) ==
    LET rest == SubSeq(t, LeadingSpaces(t) + 1, Len(t))
    IN IF rest = <<>> THEN <<>>
       ELSE << SubSeq(rest, 1, WordLen(rest)) >>
                \o Split(SubSeq(rest, WordLen(rest) + 1, Len(rest)))

\* sep.join(words)
RECURSIVE Join(_, _)
Join(sep, words) ==
    IF words = <<>> THEN <<>>
    ELSE IF Len(words) = 1 THEN words[1]
    ELSE words[1] \o sep \o Join(sep, Tail(words))

\* A comparison of the texts as they are, whitespace included.
Normalize_identity(t) == t

\* " ".join(text.split())
Normalize(t) ==
    Join(<<" ">>, Split(t))

\* The literal of SQLAR_TABLE_SCHEMA.
SchemaLiteral ==
    << "\n", "CREATE", " ", "TABLE", " ", "sqlar", "(", "\n", " ", " ",
       " ", " ", "name", " ", "TEXT", " ", "PRIMARY", " ", "KEY", ",",
       "\n", " ", " ", " ", " ", "mode", " ", "INT", ",", "\n", " ", " ",
       " ", " ", "mtime", " ", "INT", ",", "\n", " ", " ", " ", " ", "sz",
       " ", "INT", ",", "\n", " ", " ", " ", " ", "data", " ", "BLOB",
       "\n", ")" >>

SQLAR_TABLE_SCHEMA == Normalize(SchemaLiteral)

\* What sqlite_master holds for the table _init_archive creates.
CreatedSql ==
    << "CREATE", " ", "TABLE", " ", "sqlar", "(", "\n", " ", " ", " ", " ",
       " ", " ", " ", " ", " ", " ", " ", " ", " ", " ", " ", " ", " ",
       " ", " ", " ", "name", " ", "TEXT", " ", "PRIMARY", " ", "KEY", ",",
       "\n", " ", " ", " ", " ", " ", " ", " ", " ", " ", " ", " ", " ",
       " ", " ", " ", " ", " ", " ", " ", " ", "mode", " ", "INT", ",",
       "\n", " ", " ", " ", " ", " ", " ", " ", " ", " ", " ", " ", " ",
       " ", " ", " ", " ", " ", " ", " ", " ", "mtime", " ", "INT", ",",
       "\n", " ", " ", " ", " ", " ", " ", " ", " ", " ", " ", " ", " ",
       " ", " ", " ", " ", " ", " ", " ", " ", "sz", " ", "INT", ",", "\n",
       " ", " ", " ", " ", " ", " ", " ", " ", " ", " ", " ", " ", " ",
       " ", " ", " ", " ", " ", " ", " ", "data", " ", "BLOB", "\n", " ",
       " ", " ", " ", " ", " ", " ", " ", " ", " ", " ", " ", " ", " ",
       " ", " ", ")" >>

\* Other declarations of a table sqlar.
TabbedSql ==
    << "CREATE", " ", "TABLE", " ", "sqlar", "(", "\n", "\t", " ", "name",
       " ", "TEXT", " ", "PRIMARY", " ", "KEY", ",", "\n", " ", "mode",
       " ", "INT", ",", " ", " ", "mtime", " ", "INT", ",", " ", "sz", " ",
       "INT", ",", " ", "data", " ", "BLOB", "\n", ")" >>

CompactSql ==
    << "CREATE", " ", "TABLE", " ", "sqlar", "(", "name", " ", "TEXT", " ",
       "PRIMARY", " ", "KEY", ",", " ", "mode", " ", "INT", ",", " ",
       "mtime", " ", "INT", ",", " ", "sz", " ", "INT", ",", " ", "data",
       " ", "BLOB", ")" >>

OneColumnSql ==
    << "CREATE", " ", "TABLE", " ", "sqlar", "(", "\n", " ", " ", " ", " ",
       " ", " ", " ", " ", " ", " ", " ", " ", " ", " ", " ", " ", " ",
       " ", " ", " ", "name", " ", "TEXT", " ", "PRIMARY", " ", "KEY",
       "\n", " ", " ", " ", " ", " ", " ", " ", " ", " ", " ", " ", " ",
       " ", " ", " ", " ", ")" >>

ExtraColumnSql ==
    << "CREATE", " ", "TABLE", " ", "sqlar", "(", " ", "name", " ", "TEXT",
       " ", "PRIMARY", " ", "KEY", ",", " ", "mode", " ", "INT", ",", " ",
       "mtime", " ", "INT", ",", " ", "sz", " ", "INT", ",", " ", "data",
       " ", "BLOB", ",", " ", "owner", " ", "TEXT", " ", ")" >>

NoKeySql ==
    << "CREATE", " ", "TABLE", " ", "sqlar", "(", " ", "name", " ", "TEXT",
       ",", " ", "mode", " ", "INT", ",", " ", "mtime", " ", "INT", ",",
       " ", "sz", " ", "INT", ",", " ", "data", " ", "BLOB", " ", ")" >>

ReorderedSql ==
    << "CREATE", " ", "TABLE", " ", "sqlar", "(", " ", "name", " ", "TEXT",
       " ", "PRIMARY", " ", "KEY", ",", " ", "mtime", " ", "INT", ",", " ",
       "mode", " ", "INT", ",", " ", "sz", " ", "INT", ",", " ", "data",
       " ", "BLOB", " ", ")" >>

SchemaTexts ==
    {CreatedSql, SQLAR_TABLE_SCHEMA, TabbedSql, CompactSql, OneColumnSql,
     ExtraColumnSql, NoKeySql, ReorderedSql}

\* Rows of sqlite_master.
Master(type, tbl_name, sql) == [type |-> type, tbl_name |-> tbl_name, sql |-> sql]
SqlarTable(sql) == Master("table", "sqlar", Some(sql))
SqlarIndex == Master("index", "sqlar", None)
OtherTable == Master("table", "t", Some(<<"CREATE", " ", "TABLE", " ", "t", "(", "a", ")">>))

\* A candidate file as is_sqlar meets it: whether it exists, what
\* sqlite3.connect and cursor.execute raise on it ("" for nothing), and the
\* rows of its sqlite_master.
Candidate(filename, exists, connect, execute, master) ==
    [filename |-> filename, exists |-> exists, connect |-> connect,
     execute |-> execute, master |-> master]

Databases ==
    {Candidate("db", TRUE, "", "", m) :
        m \in {<<>>, <<OtherTable>>, <<SqlarIndex, OtherTable>>}
              \cup {<<SqlarTable(t), SqlarIndex>> : t \in SchemaTexts}
              \cup {<<OtherTable, SqlarTable(t), SqlarIndex>> : t \in SchemaTexts}
              \cup {<<SqlarIndex, SqlarTable(t)>> : t \in SchemaTexts}
              \cup {<<Master("view", "sqlar", Some(t)), OtherTable>> : t \in SchemaTexts}}

Candidates ==
    Databases
    \cup { Candidate(":memory:", FALSE, "", "", <<>>),
           Candidate("missing", FALSE, "", "", <<>>),
           Candidate("directory", TRUE, "OperationalError", "", <<>>),
           Candidate("text", TRUE, "", "DatabaseError", <<>>),
           Candidate("locked", TRUE, "", "OperationalError", <<SqlarTable(CreatedSql), SqlarIndex>>) }

\* SELECT sql FROM sqlite_master WHERE tbl_name = 'sqlar' AND type = 'table'
\* ... fetchone()
SelectSchema(master) ==
    LET hit == SelectSeq(master, LAMBDA r : r.tbl_name = "sqlar" /\ r.type = "table")
    IN IF hit = <<>> THEN None ELSE Some(hit[1].sql)

\* is_sqlar(filename). When connect raises, conn is never bound and the
\* finally clause's conn.close() raises UnboundLocalError; an exception of
\* execute other than OperationalError propagates.
is_sqlar(c) ==
    IF c.filename = ":memory:" THEN [exc |-> "", ret |-> Some(TRUE)]
    ELSE IF ~c.exists THEN [exc |-> "", ret |-> Some(FALSE)]
    ELSE IF c.connect # "" THEN [exc |-> "UnboundLocalError", ret |-> None]
    ELSE IF c.execute = "OperationalError" THEN [exc |-> "", ret |-> Some(FALSE)]
    ELSE IF c.execute # "" THEN [exc |-> c.execute, ret |-> None]
    ELSE LET row == SelectSchema(c.master)
         IN IF row = None THEN [exc |-> "", ret |-> Some(FALSE)]
            ELSE [exc |-> "",
                  ret |-> Some(Normalize(row[1][1]) = SQLAR_TABLE_SCHEMA)]

IsSqlar ==
    \E c \in Candidates :
        /\ last.op = ""
        /\ last' = Call("is_sqlar", c, is_sqlar(c).exc, is_sqlar(c).ret)
        /\ UNCHANGED <<conn, sqlar, fs, _compression, _compress_level>>


-----------------------------------------------------------------------------
(* The archive as a state machine: one action per public method *)

MemberLens == {1, 2, 999, 1000, 1001}
MemberLists ==
    {<<>>, << <<"a">>, <<"a", "b">> >>, << <<"a", "b">> >>}
    \cup {[i \in 1..n |-> <<"a">>] : n \in MemberLens}
MemberArgs == {None} \cup {Some(m) : m \in MemberLists}

Init ==
    /\ conn = "open"
    /\ sqlar = <<>>
    /\ fs = InitFs
    /\ last = Idle
    /\ \E c \in Configs : _compression = c[1] /\ _compress_level = c[2]

Close ==
    /\ last.op = ""
    /\ conn' = "closed"
    /\ last' = Call("close", <<>>, "", None)
    /\ UNCHANGED <<sqlar, fs, _compression, _compress_level>>

GetInfo ==
    \E name \in ArcNames :
        /\ last.op = ""
        /\ last' = Call("getinfo", [name |-> name], getinfo(name).exc, getinfo(name).ret)
        /\ UNCHANGED <<conn, sqlar, fs, _compression, _compress_level>>

InfoList ==
    /\ last.op = ""
    /\ last' = Call("infolist", <<>>, infolist.exc, infolist.ret)
    /\ UNCHANGED <<conn, sqlar, fs, _compression, _compress_level>>

NameList ==
    /\ last.op = ""
    /\ last' = Call("namelist", <<>>, namelist.exc, namelist.ret)
    /\ UNCHANGED <<conn, sqlar, fs, _compression, _compress_level>>

Read ==
    \E name \in ArcNames :
        /\ last.op = ""
        /\ last' = Call("read", [name |-> name], read(name).exc, read(name).ret)
        /\ UNCHANGED <<conn, sqlar, fs, _compression, _compress_level>>

\* sql(query): the query of the tests' kind, a SELECT over sqlar.
Sql ==
    /\ last.op = ""
    /\ last' = Call("sql", <<>>, namelist.exc, namelist.ret)
    /\ UNCHANGED <<conn, sqlar, fs, _compression, _compress_level>>

Open ==
    /\ last.op = ""
    /\ last' = Call("open", <<>>, "NotImplementedError", None)
    /\ UNCHANGED <<conn, sqlar, fs, _compression, _compress_level>>

TestSqlar ==
    /\ last.op = ""
    /\ last' = Call("testsqlar", <<>>, "NotImplementedError", None)
    /\ UNCHANGED <<conn, sqlar, fs, _compression, _compress_level>>

\* One call extract(member, path) at time now.
ExtractCall(member, path, now) ==
    LET r == extract(member, path, now)
    IN /\ last.op = ""
       /\ fs' = r.fs
       /\ last' = Call("extract", [member |-> member, path |-> path],
                       r.exc, Some(r.calls))
       /\ UNCHANGED <<conn, sqlar, _compression, _compress_level>>

Extract ==
    \E member \in ArcNames, path \in Roots, now \in Clock :
        ExtractCall(member, path, now)

ExtractAll ==
    \E path \in Roots, members \in MemberArgs, now \in Clock :
        LET r == extractall(path, members, now)
        IN /\ last.op = ""
           /\ fs' = r.fs
           /\ last' = Call("extractall",
                           [path |-> path,
                            given |-> members # None,
                            n |-> IF members = None THEN 0 ELSE Len(members[1]),
                            names |-> IF members = None THEN {} ELSE Range(members[1])],
                           r.exc, Some(r.calls))
           /\ UNCHANGED <<conn, sqlar, _compression, _compress_level>>

\* The compression arguments of a call, on record when the call is traced.
Codec(compression, compress_level, traced) ==
    IF traced THEN Some([compression |-> compression, compress_level |-> compress_level])
    ELSE None

\* One call write(filename, arcname, compression, compress_level).
WriteCall(filename, arcname, compression, compress_level, traced) ==
    LET r == write(filename, arcname, compression, compress_level)
    IN /\ last.op = ""
       /\ sqlar' = r.rows
       /\ last' = Call("write",
                       [filename |-> filename, arcname |-> arcname,
                        codec |-> Codec(compression, compress_level, traced)],
                       r.exc, None)
       /\ UNCHANGED <<conn, fs, _compression, _compress_level>>

Write ==
    \E c \in WriteCalls, k \in CodecArgs : WriteCall(c[1], c[2], k[1], k[2], FALSE)

\* One call writestr(arcname, data, unix_mode, mtime, compression,
\* compress_level).
WriteStrCall(arcname, data, unix_mode, mtime, compression, compress_level, traced) ==
    LET r == writestr(arcname, data, unix_mode, mtime, compression, compress_level)
    IN /\ last.op = ""
       /\ sqlar' = r.rows
       /\ last' = Call("writestr",
                       [arcname |-> arcname, data |-> data,
                        codec |-> Codec(compression, compress_level, traced)],
                       r.exc, None)
       /\ UNCHANGED <<conn, fs, _compression, _compress_level>>

WriteStr ==
    \E arcname \in ArcNames, data \in Payloads, unix_mode \in Modes,
       mtime \in Mtimes, k \in CodecArgs :
        WriteStrCall(arcname, data, unix_mode, mtime, k[1], k[2], FALSE)

\* The caller takes the outcome of the call; the archive is ready for the
\* next call.
Return ==
    /\ last.op # ""
    /\ last' = Idle
    /\ UNCHANGED <<conn, sqlar, fs, _compression, _compress_level>>

Next ==
    \/ Close
    \/ GetInfo
    \/ InfoList
    \/ NameList
    \/ Read
    \/ Sql
    \/ Open
    \/ TestSqlar
    \/ Extract
    \/ ExtractAll
    \/ Write
    \/ WriteStr
    \/ Return

Spec == Init /\ [][Next]_vars

\* The schema detector alone: is_sqlar is a module function and reads
\* neither the archive object nor the filesystem of the model.
NextDetect ==
    \/ IsSqlar
    \/ Return

SpecDetect == Init /\ [][NextDetect]_vars

\* The archive written and extracted under names that point out of the
\* destination root.
WriteStrOutside ==
    \E arcname \in OutsideNames, data \in Payloads, unix_mode \in Modes,
       mtime \in Mtimes, k \in CodecArgs :
        WriteStrCall(arcname, data, unix_mode, mtime, k[1], k[2], FALSE)

ExtractOutside ==
    \E member \in OutsideNames, path \in Roots, now \in Clock :
        ExtractCall(member, path, now)

NextEscape ==
    \/ WriteStrOutside
    \/ ExtractOutside
    \/ Return

SpecEscape == Init /\ [][NextEscape]_vars

\* The archive written with the compression arguments of each call on
\* record.
WriteTraced ==
    \E c \in WriteCalls, k \in CodecArgs : WriteCall(c[1], c[2], k[1], k[2], TRUE)

WriteStrTraced ==
    \E arcname \in ArcNames, data \in Payloads, unix_mode \in Modes,
       mtime \in Mtimes, k \in CodecArgs :
        WriteStrCall(arcname, data, unix_mode, mtime, k[1], k[2], TRUE)

NextCodec ==
    \/ WriteTraced
    \/ WriteStrTraced
    \/ Return

SpecCodec == Init /\ [][NextCodec]_vars


-----------------------------------------------------------------------------
(* Properties *)

Returned(op) == last.op = op /\ last.exc = ""

\* The archive name a write-type call asked for.
AskedName(call) ==
    IF call.op = "writestr" THEN call.arg.arcname
    ELSE IF call.arg.arcname # None THEN call.arg.arcname[1]
    ELSE call.arg.filename

\* C1: on an open archive, extractall with an explicit list of exactly 999
\* names succeeds, and with 1000 names it raises ValueError.
C1_MemberLimit ==
    (last.op = "extractall" /\ conn = "open" /\ last.arg.given) =>
        /\ last.arg.n = 999 => last.exc = ""
        /\ last.arg.n = 1000 => last.exc = "ValueError"

\* C2: on an open archive, extractall with a non-empty list of at most 999
\* names does not raise and calls the extraction once for each entry whose
\* name is listed and for no other; with no list it extracts every entry in
\* the order the store yields them.
C2_ExtractsListed ==
    (last.op = "extractall" /\ conn = "open") =>
        /\ (last.arg.given /\ last.arg.n >= 1 /\ last.arg.n <= 999) =>
              /\ last.exc = ""
              /\ Range(last.ret[1]) = last.arg.names \cap RowNames(sqlar)
              /\ Len(last.ret[1]) = Cardinality(last.arg.names \cap RowNames(sqlar))
        /\ ~last.arg.given =>
              (last.exc = "" =>
                  last.ret[1] = [i \in 1..Len(sqlar) |-> sqlar[i].name])

\* C3: after writestr(name, b) returns, in either compression mode and at
\* any level, reading the entry it stored returns exactly b.
C3_RoundTrip ==
    Returned("writestr") =>
        read(as_posix(last.arg.arcname)) = [exc |-> "", ret |-> Some(last.arg.data)]

\* C3 witness: a writestr has stored a payload in compressed form.
C3_Witness ==
    /\ Returned("writestr")
    /\ Len(RowOf(sqlar, as_posix(last.arg.arcname)).data.blob) < Len(last.arg.data)

ConnectionCalls ==
    {"getinfo", "infolist", "namelist", "read", "extract", "extractall", "sql",
     "write", "writestr"}

\* C4 as claimed: once the archive is closed, each of these calls raises
\* the closed-handle error.
C4_ClosedError ==
    (conn = "closed" /\ last.op \in ConnectionCalls) => last.exc = ClosedError

\* C4 as amended: once the archive is closed, each of these calls raises:
\* the closed-handle error, unless the call's own argument handling, which
\* runs before the connection is used, raises first (extractall with more
\* than 1000 names: ValueError; write of a path that does not exist:
\* FileNotFoundError; write of a path that is no file, directory or link:
\* ValueError).
C4_ClosedRaises ==
    (conn = "closed" /\ last.op \in ConnectionCalls) =>
        \/ last.exc = ClosedError
        \/ /\ last.op = "extractall"
           /\ last.arg.given /\ last.arg.n > MemberLimit
           /\ last.exc = "ValueError"
        \/ /\ last.op = "write"
           /\ ~Exists(fs, Follow(fs, Locate(last.arg.filename)))
           /\ last.exc = "FileNotFoundError"
        \/ /\ last.op = "write"
           /\ Exists(fs, Locate(last.arg.filename))
           /\ fs[Locate(last.arg.filename)].kind \notin {"file", "dir", "symlink"}
           /\ last.exc = "ValueError"

\* C4 witness: a read on a closed archive has raised the closed-handle error.
C4_Witness ==
    conn = "closed" /\ last.op = "read" /\ last.exc = ClosedError

\* C5: names stay unique; a write or writestr whose archive name is already
\* stored raises (the store's uniqueness error once it reaches the insert)
\* and leaves every row as it was; no call changes or removes a stored row.
C5_NoOverwrite ==
    [][ last'.op \in {"write", "writestr"} =>
          /\ \A i, j \in 1..Len(sqlar') :
                sqlar'[i].name = sqlar'[j].name => i = j
          /\ \A i \in 1..Len(sqlar) : i <= Len(sqlar') /\ sqlar'[i] = sqlar[i]
          /\ (conn = "open" /\ as_posix(AskedName(last')) \in RowNames(sqlar)) =>
                /\ sqlar' = sqlar
                /\ last'.exc # ""
                /\ last'.exc \notin {"FileNotFoundError", "ValueError"} =>
                      last'.exc = "IntegrityError"
      ]_vars

\* C5 witness: a writestr under a stored name has raised the uniqueness
\* error, on an archive of two entries.
C5_Witness ==
    last.op = "writestr" /\ last.exc = "IntegrityError" /\ Len(sqlar) = 2

\* C6: for a name that is not in the archive, read and getinfo return None
\* without raising, and extract returns without raising and leaves the
\* filesystem exactly as it was.
C6_AbsentName ==
    [][ conn = "open" =>
          /\ (last'.op \in {"read", "getinfo"}
                /\ last'.arg.name \notin RowNames(sqlar)) =>
                last'.exc = "" /\ last'.ret = None
          /\ (last'.op = "extract" /\ last'.arg.member \notin RowNames(sqlar)) =>
                last'.exc = "" /\ fs' = fs /\ last'.ret = Some(<<>>)
      ]_vars

\* C6 witness: extract of an absent name from a non-empty archive into a
\* destination root that does not exist has returned, the root still absent.
C6_Witness ==
    /\ Returned("extract")
    /\ sqlar # <<>>
    /\ last.arg.member \notin RowNames(sqlar)
    /\ last.arg.path = Some(<<"out">>)
    /\ ~Exists(fs, <<"cwd", "out">>)

\* C9: after a successful write or writestr under archive name n, namelist
\* includes n itself and a lookup of n finds the entry.
C9_StoredUnderGivenName ==
    (last.op \in {"write", "writestr"} /\ last.exc = "") =>
        /\ AskedName(last) \in Range(namelist.ret[1])
        /\ getinfo(AskedName(last)).ret # None

\* C10: extraction branches by kind: a row with size < 0 becomes a symbolic
\* link to the stored text, a row with size 0 and NULL data becomes a
\* directory, both without error; any other row that extracts becomes a
\* regular file holding the decoded bytes.
C10_KindBranch ==
    (last.op = "extract" /\ conn = "open" /\ last.ret # None
        /\ last.ret[1] # <<>>) =>
        LET row == RowOf(sqlar, last.arg.member)
            p == JoinPath(last.arg.path, row.name)
        IN IF row.sz < 0
           THEN /\ last.exc = ""
                /\ fs[p].kind = "symlink"
                /\ fs[p].target = row.data.text
           ELSE IF row.sz = 0 /\ row.data.t = "null"
           THEN last.exc = "" /\ fs[p].kind = "dir"
           ELSE last.exc = "" =>
                   /\ fs[Follow(fs, p)].kind = "file"
                   /\ fs[Follow(fs, p)].data = decompress_data(row.data, row.sz).v

\* The five-column declaration with single spaces, written out.
FiveColumnSchema ==
    << "CREATE", " ", "TABLE", " ", "sqlar", "(", " ", "name", " ", "TEXT",
       " ", "PRIMARY", " ", "KEY", ",", " ", "mode", " ", "INT", ",", " ",
       "mtime", " ", "INT", ",", " ", "sz", " ", "INT", ",", " ", "data",
       " ", "BLOB", " ", ")" >>

\* A text with every run of whitespace replaced by one space.
CollapseRuns(t) ==
    LET kept == {i \in 1..Len(t) : ~IsSpace(t[i]) \/ i = 1 \/ ~IsSpace(t[i - 1])}
        nth(k) == CHOOSE i \in kept : Cardinality({j \in kept : j <= i}) = k
    IN [k \in 1..Cardinality(kept) |->
            IF IsSpace(t[nth(k)]) THEN " " ELSE t[nth(k)]]

\* The declaration of the table sqlar in a candidate, if it has one.
DeclaredSchema(c) ==
    {r.sql[1] : r \in {c.master[i] : i \in
        {i \in 1..Len(c.master) :
            /\ c.master[i].type = "table"
            /\ c.master[i].tbl_name = "sqlar"
            /\ \A j \in 1..(i - 1) :
                 ~(c.master[j].type = "table" /\ c.master[j].tbl_name = "sqlar")}}}

\* C7: is_sqlar never raises: for ":memory:" it returns True, and for a file
\* that is missing, cannot be opened or queried, or lacks the table, it
\* returns False.
C7_NeverRaises ==
    last.op = "is_sqlar" =>
        /\ last.exc = ""
        /\ (last.arg.filename = ":memory:" => last.ret = Some(TRUE))
        /\ (/\ last.arg.filename # ":memory:"
            /\ \/ ~last.arg.exists
               \/ last.arg.connect # ""
               \/ last.arg.execute # ""
               \/ DeclaredSchema(last.arg) = {}
            => last.ret = Some(FALSE))

\* C8: is_sqlar returns True for ":memory:" and False for a candidate that
\* does not exist; for a candidate that can be opened and queried it returns
\* True exactly if the database declares a table sqlar whose declaration,
\* with every run of whitespace collapsed to one space, is the five-column
\* declaration, so the amount and kind of whitespace makes no difference and
\* a missing table or another column set gives False.
C8_WhitespaceInsensitive ==
    /\ SQLAR_TABLE_SCHEMA = FiveColumnSchema
    /\ (last.op = "is_sqlar" /\ last.arg.connect = "" /\ last.arg.execute = ""
          => /\ last.exc = ""
             /\ last.ret =
                  Some(IF last.arg.filename = ":memory:" THEN TRUE
                       ELSE IF ~last.arg.exists THEN FALSE
                       ELSE \E t \in DeclaredSchema(last.arg) :
                                CollapseRuns(t) = FiveColumnSchema))

C8_Witness ==
    /\ last.op = "is_sqlar"
    /\ last.exc = ""
    /\ last.ret = Some(TRUE)
    /\ \E t \in DeclaredSchema(last.arg) :
          /\ t # FiveColumnSchema
          /\ \E i \in 1..Len(t) : t[i] = "\t"

\* C11: extracting a regular-file entry gives the object the stored mode
\* and the stored mtime, with every missing parent directory made, and
\* leaves its access time what it was before mode and mtime were applied
\* (the access time of the file that was there, or the time of creation).
C11_ExtractedMetadata ==
    [][ (last'.op = "extract" /\ last'.exc = "" /\ last'.ret # Some(<<>>)) =>
          LET row == RowOf(sqlar, last'.arg.member)
              complete_path == JoinPath(last'.arg.path, row.name)
              p == Follow(fs, complete_path)
          IN /\ fs'[p].kind = "file"
             /\ fs'[p].mode = row.mode
             /\ fs'[p].mtime = row.mtime
             /\ \A a \in Ancestors(Parent(complete_path)) :
                   Exists(fs', a) /\ fs'[a].kind = "dir"
             /\ IF Exists(fs, p)
                THEN /\ fs'[p].atime = fs[p].atime
                     /\ fs'[p].atime_ns = fs[p].atime_ns
                ELSE /\ fs'[p].atime \in Clock
                     /\ fs'[p].atime_ns = SubSecond
      ]_vars

\* C12: write of a path that is a symbolic link (dangling or not), a
\* directory or a regular file inserts one row, under every compression
\* setting: sz -1 and the link target as text for a link, sz 0 and NULL for
\* a directory, the byte length and the stored bytes for a file.
C12_KindEncoding ==
    [][ (/\ last'.op = "write"
         /\ conn = "open"
         /\ Exists(fs, Locate(last'.arg.filename))
         /\ fs[Locate(last'.arg.filename)].kind \in {"symlink", "dir", "file"}
         /\ as_posix(AskedName(last')) \notin RowNames(sqlar)) =>
          LET path == Locate(last'.arg.filename)
              obj == fs[path]
              row == sqlar'[Len(sqlar')]
          IN /\ last'.exc = ""
             /\ Len(sqlar') = Len(sqlar) + 1
             /\ IF obj.kind = "symlink"
                THEN /\ row.sz = 0 - 1
                     /\ row.data.t = "text"
                     /\ row.data.text \in {obj.target, <<"">> \o Follow(fs, path)}
                ELSE IF obj.kind = "dir"
                THEN row.sz = 0 /\ row.data = Null
                ELSE /\ row.sz = Len(obj.data)
                     /\ row.data.t = "blob"
                     /\ decompress_data(row.data, row.sz) = [exc |-> "", v |-> obj.data]
      ]_vars

\* C13: every regular-file row holds the uncompressed length of its input
\* as sz, reported by getinfo, and data no longer than it: the input itself
\* unless the compressed form is strictly shorter.
C13_SizeAndLength ==
    /\ \A i \in 1..Len(sqlar) :
          sqlar[i].data.t = "blob" => Len(sqlar[i].data.blob) <= sqlar[i].sz
    /\ Returned("writestr") =>
          LET row == RowOf(sqlar, as_posix(last.arg.arcname))
          IN /\ row.sz = Len(last.arg.data)
             /\ getinfo(row.name).ret[1][4] = Len(last.arg.data)
             /\ row.data.blob # last.arg.data =>
                   Len(row.data.blob) < Len(last.arg.data)
    /\ (Returned("write") /\ fs[Locate(last.arg.filename)].kind = "file") =>
          LET row == RowOf(sqlar, as_posix(AskedName(last)))
              input == fs[Locate(last.arg.filename)].data
          IN /\ row.sz = Len(input)
             /\ getinfo(row.name).ret[1][4] = Len(input)
             /\ row.data.blob # input => Len(row.data.blob) < Len(input)

\* C13 witness: write has stored a file in compressed form, and the archive
\* also holds an entry stored as given.
C13_Witness ==
    /\ Returned("write")
    /\ fs[Locate(last.arg.filename)].kind = "file"
    /\ Len(RowOf(sqlar, as_posix(AskedName(last))).data.blob)
          < Len(fs[Locate(last.arg.filename)].data)
    /\ \E i \in 1..Len(sqlar) :
          sqlar[i].data.t = "blob" /\ sqlar[i].sz > 0
             /\ Len(sqlar[i].data.blob) = sqlar[i].sz

\* C14: when extractall of the whole archive raises, it was called on the
\* first k entries in store order, the k-1 before the failing one are on the
\* filesystem as extracted, and no later entry was extracted; when it
\* returns, it was called on every entry.
C14_PartialExtraction ==
    [][ (last'.op = "extractall" /\ conn = "open" /\ ~last'.arg.given) =>
          LET calls == last'.ret[1]
              k == Len(calls)
          IN /\ k <= Len(sqlar)
             /\ calls = [i \in 1..k |-> sqlar[i].name]
             /\ last'.exc = "" => k = Len(sqlar)
             /\ last'.exc # "" =>
                   /\ k >= 1
                   /\ \A i \in 1..(k - 1) :
                         LET p == JoinPath(last'.arg.path, sqlar[i].name)
                         IN /\ Exists(fs', p)
                            /\ fs'[p].kind = "file"
                            /\ fs'[p].data = decompress_data(sqlar[i].data, sqlar[i].sz).v
                            /\ fs'[p].mode = sqlar[i].mode
                            /\ fs'[p].mtime = sqlar[i].mtime
      ]_vars

\* C14 witness: extractall into a fresh root has raised on the second entry
\* and the first entry's file is there.
C14_Witness ==
    /\ last.op = "extractall"
    /\ last.exc # ""
    /\ last.arg.path = Some(<<"out">>)
    /\ Len(last.ret[1]) = 2
    /\ Exists(fs, <<"cwd", "out", "a">>)
    /\ fs[<<"cwd", "out", "a">>].kind = "file"

Root(path) == IF path = None THEN Cwd ELSE Locate(path[1])

\* p is the directory root or lies below it.
Inside(p, root) == Len(p) >= Len(root) /\ SubSeq(p, 1, Len(root)) = root

\* C15: every object extract creates or changes lies inside the destination
\* root (the root itself and its missing parents may be created).
C15_InsideRoot ==
    [][ last'.op = "extract" =>
          \A p \in DOMAIN fs' :
              (p \notin DOMAIN fs \/ fs'[p] # fs[p]) =>
                  \/ Inside(p, Root(last'.arg.path))
                  \/ Inside(Root(last'.arg.path), p)
      ]_vars

\* The compressed form when it is strictly shorter, else the input.
Shorter(compressed, data) ==
    IF Len(compressed) < Len(data) THEN compressed ELSE data

\* What a write call is to store for input bytes: the mode and the level of
\* the call where given, else the archive's; the default level where neither
\* gives one.
Encoded(input, codec) ==
    LET mode == IF codec.compression # None THEN codec.compression[1]
                ELSE _compression
        level == IF codec.compress_level # None THEN codec.compress_level[1]
                 ELSE IF _compress_level # None THEN _compress_level[1]
                 ELSE Z_DEFAULT_COMPRESSION
    IN IF mode = SQLAR_DEFLATED THEN Shorter(zlib_compress(input, level), input)
       ELSE input

\* C16: a compression mode or level given to a write or writestr call
\* overrides the archive's, level 0 included: the entry is stored as the
\* compressor yields it at the level of the call, or at the archive's level
\* when the call gives none.
C16_PerCallOverride ==
    /\ (Returned("writestr") /\ last.arg.codec # None) =>
          RowOf(sqlar, as_posix(last.arg.arcname)).data.blob
             = Encoded(last.arg.data, last.arg.codec[1])
    /\ (Returned("write") /\ last.arg.codec # None
          /\ fs[Locate(last.arg.filename)].kind = "file") =>
          RowOf(sqlar, as_posix(AskedName(last))).data.blob
             = Encoded(fs[Locate(last.arg.filename)].data, last.arg.codec[1])

=============================================================================
